---- MODULE Spec2Model ----
(***************************************************************************)
(* A model of jmfinder.py: the JoinMarket CoinJoin finder.                 *)
(*                                                                         *)
(* Bytes are naturals in 0..255 and a bytes object is a sequence of them.  *)
(* Python's 0-based, clipping slices are the operators PySlice, PyFrom,    *)
(* PyUpTo and PyLast.  A Python exception raised by a function is the      *)
(* result Raise (a record whose field ok is FALSE).                        *)
(***************************************************************************)
EXTENDS Integers, Sequences, FiniteSets, TLC

VARIABLES
    pc,             \* control point of main(), or of the function harness
    arg,            \* the arguments of the pure function under call
    ret,            \* the value the pure function returned
    file,           \* content of the candidate file (args.candidate_file_name)
    file0,          \* content of the candidate file when the run started
    results,        \* main: results
    nmerge,         \* number of times the current results were merged
    end_block,      \* main: end_block
    height,         \* main: height
    txs_data,       \* main: txs_data, the block behind its header
    n_txs,          \* main: n_txs
    block_offset,   \* main: block_offset
    i,              \* main: i
    j,              \* main: j
    tx_size,        \* main: tx_size
    processed_txs,  \* main: processed_txs
    attempt,        \* main: the locals the last decode attempt left
    failed          \* indexes of the block that failed at every slice width

fnVars == <<arg, ret>>
storeVars == <<file, file0, results, nmerge>>
blockVars == <<txs_data, n_txs, block_offset, i, j, tx_size, processed_txs, attempt, failed>>
scanVars == <<end_block, height, txs_data, n_txs, block_offset, i, j, tx_size,
              processed_txs, attempt, failed>>
vars == <<pc, arg, ret, file, file0, results, nmerge, end_block, height, txs_data,
          n_txs, block_offset, i, j, tx_size, processed_txs, attempt, failed>>

----------------------------------------------------------------------------
(* Python built-ins *)

Min(a, b) == IF a <= b THEN a ELSE b
Max(a, b) == IF a >= b THEN a ELSE b

\* s[a:b] for 0 <= a, 0 <= b
PySlice(s, a, b) == SubSeq(s, a + 1, Min(b, Len(s)))
\* s[a:] for 0 <= a
PyFrom(s, a) == SubSeq(s, a + 1, Len(s))
\* s[:b] for 0 <= b
PyUpTo(s, b) == SubSeq(s, 1, Min(b, Len(s)))
\* s[-k:] for k > 0
PyLast(s, k) == SubSeq(s, Max(1, Len(s) - k + 1), Len(s))

\* the result of a call that raised an exception
Raise == [ok |-> FALSE]

\* struct.unpack of a little-endian unsigned integer ("<H", "<I", "<Q")
RECURSIVE unpack_le(_)
unpack_le(b) == IF b = <<>> THEN 0 ELSE b[1] + 256 * unpack_le(Tail(b))

decode_uint32(data) ==
    IF Len(data) # 4 THEN Raise
    ELSE [ok |-> TRUE, value |-> unpack_le(data)]

decode_uint64(data) ==
    IF Len(data) # 8 THEN Raise
    ELSE [ok |-> TRUE, value |-> unpack_le(data)]

\* struct.calcsize of "<H", "<I", "<Q" for the selectors 253, 254, 255
calcsize(selector) == IF selector = 253 THEN 2 ELSE IF selector = 254 THEN 4 ELSE 8

\* decode_varint without the length check of struct.unpack
decode_varint_short(data) ==
    IF data = <<>> THEN Raise
    ELSE LET first == data[1]
         IN  IF first > 255 THEN Raise
             ELSE IF first < 253 THEN [ok |-> TRUE, value |-> first, size |-> 1]
             ELSE LET size == calcsize(first)
                      body == PySlice(data, 1, size + 1)
                  IN  [ok |-> TRUE, value |-> unpack_le(body), size |-> size + 1]

decode_varint(data) ==
    IF data = <<>> THEN Raise                 \* data[0]: IndexError
    ELSE LET first == data[1]
         IN  IF first > 255 THEN Raise
             ELSE IF first < 253 THEN [ok |-> TRUE, value |-> first, size |-> 1]
             ELSE LET size == calcsize(first)
                      body == PySlice(data, 1, size + 1)
                  IN  IF Len(body) # size THEN Raise   \* struct.error
                      ELSE [ok |-> TRUE, value |-> unpack_le(body),
                            size |-> size + 1]

\* ceil(weight / 4) for weight >= 0
CeilDiv4(weight) == IF weight % 4 = 0 THEN weight \div 4 ELSE (weight \div 4) + 1

\* the virtual size with weight / 4 rounded down
vsize_floor(is_segwit, size, offset_before_tx_witnesses) ==
    IF ~is_segwit THEN size
    ELSE LET witness_size == size - offset_before_tx_witnesses - 4
             stripped_size == size - (2 + witness_size)
             weight == stripped_size * 3 + size
         IN  weight \div 4

\* the transaction size in virtual bytes
vsize_of(is_segwit, size, offset_before_tx_witnesses) ==
    IF ~is_segwit THEN size
    ELSE LET witness_size == size - offset_before_tx_witnesses - 4
             stripped_size == size - (2 + witness_size)
             weight == stripped_size * 3 + size
         IN  CeilDiv4(weight)

----------------------------------------------------------------------------
(* The JoinMarket pattern *)

MIN_PARTICIPANTS == 3
MIN_CJ_AMOUNT == 75000

\* Counter(values)[v]
Count(values, v) == Cardinality({k \in DOMAIN values : values[k] = v})

\* the first item of the Counter instead of its most common one
most_common_first(values) == <<values[1], Count(values, values[1])>>

\* Counter(values).most_common(1)[0]: the items of a Counter are kept in
\* order of first insertion and max() returns the first maximal item.
most_common(values) ==
    LET first == CHOOSE k \in DOMAIN values :
                    /\ \A m \in DOMAIN values :
                          Count(values, values[m]) <= Count(values, values[k])
                    /\ \A m \in 1..(k - 1) :
                          Count(values, values[m]) < Count(values, values[k])
    IN  <<values[first], Count(values, values[first])>>

\* is_jm accepting at least assumed_cj_outs equal outputs
is_jm_atleast(n_in, n_out, values) ==
    LET assumed_cj_outs == (n_out \div 2) + (IF n_out % 2 # 0 THEN 1 ELSE 0)
    IN  IF assumed_cj_outs < MIN_PARTICIPANTS THEN [ok |-> TRUE, r |-> <<0, 0>>]
        ELSE IF n_in < assumed_cj_outs THEN [ok |-> TRUE, r |-> <<0, 0>>]
        ELSE IF values = <<>> THEN Raise
        ELSE LET mc == most_common(values)
             IN  IF mc[1] < MIN_CJ_AMOUNT THEN [ok |-> TRUE, r |-> <<0, 0>>]
                 ELSE IF mc[2] < assumed_cj_outs
                      THEN [ok |-> TRUE, r |-> <<0, 0>>]
                 ELSE [ok |-> TRUE, r |-> mc]

is_jm(n_in, n_out, values) ==
    LET assumed_cj_outs == (n_out \div 2) + (IF n_out % 2 # 0 THEN 1 ELSE 0)
    IN  IF assumed_cj_outs < MIN_PARTICIPANTS THEN [ok |-> TRUE, r |-> <<0, 0>>]
        ELSE IF n_in < assumed_cj_outs THEN [ok |-> TRUE, r |-> <<0, 0>>]
        ELSE IF values = <<>> THEN Raise    \* [][0] of an empty list: IndexError
        ELSE LET mc == most_common(values)
             IN  IF mc[1] < MIN_CJ_AMOUNT THEN [ok |-> TRUE, r |-> <<0, 0>>]
                 ELSE IF mc[2] # assumed_cj_outs
                      THEN [ok |-> TRUE, r |-> <<0, 0>>]
                 ELSE [ok |-> TRUE, r |-> mc]

----------------------------------------------------------------------------
(* The transaction decoder: the body of the try block of main() applied to  *)
(* one slice tx of the block.  Its result holds the locals the attempt left: *)
(* ok is FALSE when the attempt raised; assigned tells whether tx_size was   *)
(* assigned (line 390) before that.                                          *)

\* the digest of data: uninterpreted and free of collisions
double_sha256(data) == <<"sha256d", data>>
format_hash(hash_) == <<"reversed_hex", hash_>>

\* for _ in range(n): the inputs from tx_offset on
RECURSIVE parse_inputs(_, _, _)
parse_inputs(tx, tx_offset, n) ==
    IF n = 0 THEN [ok |-> TRUE, tx_offset |-> tx_offset]
    ELSE LET tx_input == PyFrom(tx, tx_offset)
             script == decode_varint(PyFrom(tx_input, 36))
         IN  IF ~script.ok THEN Raise
             ELSE LET script_start == 36 + script.size
                      in_size == script_start + script.value + 4
                  IN  parse_inputs(tx, tx_offset + in_size, n - 1)

\* for _ in range(n): the outputs from tx_offset on
RECURSIVE parse_outputs(_, _, _, _)
parse_outputs(tx, tx_offset, n, values) ==
    IF n = 0 THEN [ok |-> TRUE, tx_offset |-> tx_offset, values |-> values]
    ELSE LET tx_output == PyFrom(tx, tx_offset)
             value == decode_uint64(PyUpTo(tx_output, 8))
             script == decode_varint(PyFrom(tx_output, 8))
         IN  IF ~value.ok \/ ~script.ok THEN Raise
             ELSE LET script_start == 8 + script.size
                      out_size == script_start + script.value
                  IN  parse_outputs(tx, tx_offset + out_size, n - 1,
                                    Append(values, value.value))

\* for _ in range(tx_witnesses_n): the items of one witness stack
RECURSIVE parse_items(_, _, _)
parse_items(tx, tx_offset, n) ==
    IF n = 0 THEN [ok |-> TRUE, tx_offset |-> tx_offset]
    ELSE LET component == decode_varint(PyFrom(tx, tx_offset))
         IN  IF ~component.ok THEN Raise
             ELSE parse_items(tx, tx_offset + component.size + component.value, n - 1)

\* for _ in range(n_in): the witness stacks
RECURSIVE parse_witnesses(_, _, _)
parse_witnesses(tx, tx_offset, n) ==
    IF n = 0 THEN [ok |-> TRUE, tx_offset |-> tx_offset]
    ELSE LET tx_witnesses_n == decode_varint(PyFrom(tx, tx_offset))
         IN  IF ~tx_witnesses_n.ok THEN Raise
             ELSE LET items == parse_items(tx, tx_offset + tx_witnesses_n.size,
                                           tx_witnesses_n.value)
                  IN  IF ~items.ok THEN Raise
                      ELSE parse_witnesses(tx, items.tx_offset, n - 1)

\* the bytes hashed for the wtxid: the whole transaction
txid_data_whole(tx, is_segwit, offset_before_tx_witnesses) == tx

\* the bytes hashed for the txid; tx is already cut to tx_size
txid_data_of(tx, is_segwit, offset_before_tx_witnesses) ==
    IF is_segwit
    THEN PyUpTo(tx, 4) \o PySlice(tx, 6, offset_before_tx_witnesses) \o PyLast(tx, 4)
    ELSE tx

NotAssigned == [ok |-> FALSE, assigned |-> FALSE]

\* lines 390-433, with the cursor tx_offset behind the last parsed field
finish_tx(tx0, version, locktime, is_segwit, n_in, n_out, values, offset_before_tx_witnesses, tx_offset) ==
    LET size == tx_offset + 4
        tx == PyUpTo(tx0, size)
    IN  IF size # Len(tx)
        THEN [ok |-> FALSE, assigned |-> TRUE, tx_size |-> size]
        ELSE LET txid_data == txid_data_of(tx, is_segwit, offset_before_tx_witnesses)
                 jm == is_jm(n_in, n_out, values)
             IN  IF ~jm.ok
                 THEN [ok |-> FALSE, assigned |-> TRUE, tx_size |-> size]
                 ELSE [ok |-> TRUE, assigned |-> TRUE, tx_size |-> size,
                       version |-> version, locktime |-> locktime,
                       is_segwit |-> is_segwit, n_in |-> n_in, n_out |-> n_out,
                       values |-> values,
                       txid_data |-> txid_data,
                       txid |-> format_hash(double_sha256(txid_data)),
                       vsize |-> vsize_of(is_segwit, size,
                                          offset_before_tx_witnesses),
                       jm |-> jm.r]

\* lines 335-388, then finish_tx
parse_tx(tx) ==
    LET version == decode_uint32(PyUpTo(tx, 4))
        locktime == decode_uint32(PyLast(tx, 4))
    IN  IF ~version.ok \/ ~locktime.ok THEN NotAssigned
        ELSE
        LET is_segwit == PySlice(tx, 4, 6) = <<0, 1>>
            off1 == IF is_segwit THEN 6 ELSE 4
            n_in == decode_varint(PyFrom(tx, off1))
        IN  IF ~n_in.ok THEN NotAssigned
            ELSE
            LET ins == parse_inputs(tx, off1 + n_in.size, n_in.value)
            IN  IF ~ins.ok THEN NotAssigned
                ELSE
                LET n_out == decode_varint(PyFrom(tx, ins.tx_offset))
                IN  IF ~n_out.ok THEN NotAssigned
                    ELSE
                    LET outs == parse_outputs(tx, ins.tx_offset + n_out.size,
                                              n_out.value, <<>>)
                    IN  IF ~outs.ok THEN NotAssigned
                        ELSE IF ~is_segwit
                        THEN finish_tx(tx, version.value, locktime.value, FALSE,
                                       n_in.value, n_out.value, outs.values,
                                       0, outs.tx_offset)
                        ELSE
                        LET wits == parse_witnesses(tx, outs.tx_offset, n_in.value)
                        IN  IF ~wits.ok THEN NotAssigned
                            ELSE finish_tx(tx, version.value, locktime.value, TRUE,
                                           n_in.value, n_out.value, outs.values,
                                           outs.tx_offset, wits.tx_offset)

N_WIDTHS == 20
SLICE_BASE == 1024

\* one pass of the loop over j: the slice of width 1024 * 2 ** j is parsed
try_width(data, offset, w) ==
    LET offset_e == offset + (SLICE_BASE * 2 ^ w)
    IN  parse_tx(PySlice(data, offset, offset_e))

----------------------------------------------------------------------------
(* Specification SpecJm: is_jm applied to every bounded argument triple *)

MaxIn == 4
MaxOut == 6
JmValues == {74999, 75000, 100000}

SeqsUpTo(S, n) == UNION {[1..k -> S] : k \in 0..n}

NoStore == /\ file = <<>> /\ file0 = <<>> /\ results = <<>> /\ nmerge = 0

\* main() has not started a scan
NoScan ==
    /\ end_block = 0 /\ height = 0 /\ txs_data = <<>> /\ n_txs = 0
    /\ block_offset = 0 /\ i = 0 /\ j = 0 /\ tx_size = 0 /\ processed_txs = 0
    /\ attempt = [ok |-> FALSE, assigned |-> FALSE] /\ failed = {}

InitJm ==
    /\ pc = "call_is_jm"
    /\ \E n_in \in 0..MaxIn, values \in SeqsUpTo(JmValues, MaxOut) :
          arg = <<n_in, Len(values), values>>
    /\ ret = Raise
    /\ NoStore
    /\ NoScan

CallIsJm ==
    /\ pc = "call_is_jm"
    /\ ret' = is_jm(arg[1], arg[2], arg[3])
    /\ pc' = "ret_is_jm"
    /\ UNCHANGED <<arg, storeVars, scanVars>>

NextJm == CallIsJm
SpecJm == InitJm /\ [][NextJm]_vars

\* the largest frequency of a value of vs, and the first value of vs having it
TopFreq(vs) == CHOOSE f \in 0..Len(vs) :
                  /\ \A k \in DOMAIN vs : Count(vs, vs[k]) <= f
                  /\ (vs # <<>> => \E k \in DOMAIN vs : Count(vs, vs[k]) = f)
TopValue(vs) == vs[CHOOSE k \in DOMAIN vs :
                      /\ Count(vs, vs[k]) = TopFreq(vs)
                      /\ \A m \in 1..(k - 1) : vs[m] # vs[k] =>
                            Count(vs, vs[m]) # TopFreq(vs)]
CeilHalf(n) == CHOOSE c \in 0..n : 2 * c >= n /\ 2 * (c - 1) < n

\* C1: is_jm returns (v, f), v the most frequent output value and f its
\* frequency, exactly when f = ceil(n_out/2), f >= 3, n_in >= f and
\* v >= 75000; in every other case it returns (0, 0).
C1_IsJmContract ==
    pc = "ret_is_jm" =>
        LET n_in == arg[1]
            n_out == arg[2]
            vs == arg[3]
            f == TopFreq(vs)
            accept == /\ f = CeilHalf(n_out)
                      /\ f >= 3
                      /\ n_in >= f
                      /\ TopValue(vs) >= 75000
        IN  /\ ret.ok
            /\ accept => ret.r = <<TopValue(vs), f>>
            /\ ~accept => ret.r = <<0, 0>>

C1_Witness ==
    /\ pc = "ret_is_jm"
    /\ arg = <<3, 5, <<100000, 74999, 100000, 75000, 100000>>>>
    /\ ret.ok
    /\ ret.r = <<100000, 3>>

----------------------------------------------------------------------------
(* Specification SpecVarint: decode_varint applied to bounded byte strings. *)
(* The bytes that follow the selector are drawn so that every decoded value *)
(* stays below 2^31: the fourth is at most 127, the fifth to eighth are 0.  *)

MaxVarintTail == 9

TailBytes(pos) == IF pos <= 2 THEN {0, 1, 255}
                  ELSE IF pos = 3 THEN {0, 255}
                  ELSE IF pos = 4 THEN {0, 127}
                  ELSE IF pos <= 8 THEN {0}
                  ELSE {0, 1}
Selectors == {0, 1, 252, 253, 254, 255}
VarintInputs ==
    {<<>>} \cup
    UNION {{<<sel>> \o t : sel \in Selectors,
                           t \in {u \in [1..k -> {0, 1, 127, 255}] :
                                     \A p \in 1..k : u[p] \in TailBytes(p)}}
           : k \in 0..MaxVarintTail}

InitVarint ==
    /\ pc = "call_decode_varint"
    /\ arg \in VarintInputs
    /\ ret = Raise
    /\ NoStore
    /\ NoScan

CallDecodeVarint ==
    /\ pc = "call_decode_varint"
    /\ ret' = decode_varint(arg)
    /\ pc' = "ret_decode_varint"
    /\ UNCHANGED <<arg, storeVars, scanVars>>

NextVarint == CallDecodeVarint
SpecVarint == InitVarint /\ [][NextVarint]_vars

\* the bytes a selector announces
Announced(b) == IF b < 253 THEN 0 ELSE IF b = 253 THEN 2 ELSE IF b = 254 THEN 4 ELSE 8
\* little-endian value of bytes whose fifth and later bytes are 0
LowValue(bs) == bs[1] + 256 * bs[2] +
                (IF Len(bs) > 2 THEN 65536 * bs[3] + 16777216 * bs[4] ELSE 0)

\* C9: decode_varint on a non-empty byte sequence returns (b, 1) when the
\* first byte b is below 253; for 253/254/255 it returns the little-endian
\* value of the following 2/4/8 bytes and a consumed count of 3/5/9; it
\* raises whenever fewer bytes follow the selector than it requires.
C9_VarintContract ==
    (pc = "ret_decode_varint" /\ arg # <<>>) =>
        LET b == arg[1]
            need == Announced(b)
            following == SubSeq(arg, 2, Len(arg))
        IN  IF Len(following) < need THEN ~ret.ok
            ELSE /\ ret.ok
                 /\ ret.size = need + 1
                 /\ need = 0 => ret.value = b
                 /\ need > 0 => /\ \A p \in 5..need : following[p] = 0
                                /\ ret.value = LowValue(SubSeq(following, 1, need))

C9_Witness ==
    /\ pc = "ret_decode_varint"
    /\ arg = <<254, 1, 255, 0, 127>>
    /\ ret.ok
    /\ ret.value = 2130771713
    /\ ret.size = 5

----------------------------------------------------------------------------
(* Specification SpecVsize: the virtual size for bounded lengths.  T is the *)
(* total length (tx_size), P the cursor before the witness stacks.          *)

MaxTxLen == 260

InitVsize ==
    /\ pc = "call_vsize"
    /\ \E T \in 10..MaxTxLen :
          \/ arg = <<FALSE, T, 0>>
          \/ \E P \in 8..(T - 4) : arg = <<TRUE, T, P>>
    /\ ret = Raise
    /\ NoStore
    /\ NoScan

CallVsize ==
    /\ pc = "call_vsize"
    /\ ret' = [ok |-> TRUE, value |-> vsize_of(arg[1], arg[2], arg[3])]
    /\ pc' = "ret_vsize"
    /\ UNCHANGED <<arg, storeVars, scanVars>>

NextVsize == CallVsize
SpecVsize == InitVsize /\ [][NextVsize]_vars

\* C8: for a non-witness transaction vsize is its byte length; for a witness
\* transaction of length T with non-witness prefix P, W = T - P - 4,
\* stripped = T - 2 - W, weight = 3 * stripped + T, vsize = ceil(weight / 4).
C8_Vsize ==
    pc = "ret_vsize" =>
        LET T == arg[2]
            P == arg[3]
            W == T - P - 4
            stripped == T - 2 - W
            weight == 3 * stripped + T
        IN  IF ~arg[1] THEN ret.value = T
            ELSE /\ 4 * ret.value >= weight
                 /\ 4 * (ret.value - 1) < weight
                 /\ weight = 3 * (P + 2) + T

C8_Witness ==
    /\ pc = "ret_vsize"
    /\ arg = <<TRUE, 250, 101>>
    /\ ret.value = 140

----------------------------------------------------------------------------
(* The candidate file.  A str is a sequence of tokens: a token is either a  *)
(* formatted record f'{txid},{height},{i}', kept as the tuple of its three  *)
(* comma-separated fields, or the newline NL.  The decimal text of an int is *)
(* the sequence of its digits, compared as Python compares strings.         *)

NL == <<"\n">>

\* str(n) for n >= 0
RECURSIVE DecStr(_)
DecStr(n) == IF n < 10 THEN <<n>> ELSE DecStr(n \div 10) \o <<n % 10>>

\* f'{txid},{height},{i}'
FormatLine(txid, h, idx) == << <<txid, DecStr(h), DecStr(idx)>> >>

\* a < b for strs of digits
RECURSIVE StrLess(_, _)
StrLess(a, b) ==
    IF b = <<>> THEN FALSE
    ELSE IF a = <<>> THEN TRUE
    ELSE IF a[1] # b[1] THEN a[1] < b[1]
    ELSE StrLess(Tail(a), Tail(b))

\* f.readlines(): every line keeps its newline
RECURSIVE readlines(_)
readlines(f) ==
    IF f = <<>> THEN <<>>
    ELSE LET ends == {k \in DOMAIN f : f[k] = NL}
             k == IF ends = {} THEN Len(f)
                  ELSE CHOOSE e \in ends : \A o \in ends : e <= o
         IN  <<SubSeq(f, 1, k)>> \o readlines(SubSeq(f, k + 1, Len(f)))

\* line.strip()
strip(line) == SelectSeq(line, LAMBDA t : t # NL)

\* '\n'.join(result)
RECURSIVE join_nl(_)
join_nl(result) ==
    IF result = <<>> THEN <<>>
    ELSE IF Len(result) = 1 THEN result[1]
    ELSE result[1] \o <<NL>> \o join_nl(Tail(result))

\* x.split(',')[1] exists
has_key(x) == x # <<>>
\* key=lambda x: x.split(',')[1]
sort_key(x) == x[1][2]

Range(q) == {q[k] : k \in DOMAIN q}

\* list(S): a set is iterated in an order the hash seed of the run decides
Orders(S) == {p \in [1..Cardinality(S) -> S] : Range(p) = S}

\* sorted(): stable, x goes behind every element that is not greater
RECURSIVE insert_sorted(_, _)
insert_sorted(done, x) ==
    IF done = <<>> THEN <<x>>
    ELSE IF StrLess(sort_key(x), sort_key(done[Len(done)]))
         THEN insert_sorted(SubSeq(done, 1, Len(done) - 1), x) \o <<done[Len(done)]>>
         ELSE done \o <<x>>

RECURSIVE sorted_from(_, _)
sorted_from(done, rest) ==
    IF rest = <<>> THEN done
    ELSE sorted_from(insert_sorted(done, rest[1]), Tail(rest))

sorted_by_key(q) == sorted_from(<<>>, q)

\* [line.strip() for line in f.readlines()] + results
merge_lines(f, res) ==
    LET old == readlines(f)
    IN  [k \in DOMAIN old |-> strip(old[k])] \o res

\* the file written from sorted(lines, key) without set()
merged_files_nodedup(f, res) ==
    {join_nl(sorted_by_key(merge_lines(f, res)))}

\* the contents the file can have after the write: sorted(set(lines), key)
\* over every iteration order of the set, joined by newlines
merged_files(f, res) ==
    {join_nl(sorted_by_key(p)) : p \in Orders(Range(merge_lines(f, res)))}

----------------------------------------------------------------------------
(* Specification SpecMerge: runs that found the records `results` merge    *)
(* them into the candidate file; the same scan may be repeated.            *)

MaxResults == 2
MaxMerges == 2

\* (txid, height, index) of the candidates the chain holds
Candidates == { <<"abc123", 700000, 4>>, <<"def456", 699999, 0>>,
                <<"0a1b2c", 700000, 7>>, <<"9f8e7d", 99999, 1>>,
                <<"11aa22", 100000, 2>> }

\* results of a run: candidates in ascending (height, index), none twice
RunResults ==
    {r \in SeqsUpTo(Candidates, MaxResults) :
        \A k \in 1..(Len(r) - 1) :
            \/ r[k][2] < r[k + 1][2]
            \/ r[k][2] = r[k + 1][2] /\ r[k][3] < r[k + 1][3]}

Formatted(r) == [k \in DOMAIN r |-> FormatLine(r[k][1], r[k][2], r[k][3])]

InitMerge ==
    /\ pc = "merge"
    /\ arg = <<>>
    /\ ret = Raise
    /\ file = <<>>
    /\ file0 = <<>>
    /\ nmerge = 0
    /\ \E r \in RunResults : results = Formatted(r)
    /\ NoScan

\* lines 450-458; a line without a second field raises before the truncate
Merge ==
    /\ pc = "merge"
    /\ nmerge < MaxMerges
    /\ file0' = file
    /\ nmerge' = nmerge + 1
    /\ IF \A x \in Range(merge_lines(file, results)) : has_key(x)
       THEN /\ file' \in merged_files(file, results)
            /\ pc' = pc
       ELSE /\ file' = file
            /\ pc' = "crashed"
    /\ UNCHANGED <<fnVars, results, scanVars>>

\* another run, over another range of heights
NewScan ==
    /\ pc = "merge"
    /\ nmerge >= 1
    /\ \E r \in RunResults : results' = Formatted(r)
    /\ nmerge' = 0
    /\ UNCHANGED <<pc, fnVars, file, file0, scanVars>>

NextMerge == Merge \/ NewScan
SpecMerge == InitMerge /\ [][NextMerge]_vars

FileLines(f) == LET old == readlines(f) IN [k \in DOMAIN old |-> strip(old[k])]

\* int(s) for a str of digits
RECURSIVE StrInt(_)
StrInt(s) == IF s = <<>> THEN 0 ELSE 10 * StrInt(SubSeq(s, 1, Len(s) - 1)) + s[Len(s)]

\* C2: merging the results R and then merging R again leaves a file whose
\* sequence of lines is identical to the file after the first merge.
C2_MergeIdempotent ==
    (pc = "merge" /\ nmerge >= 2) => file = file0

\* C3: after every write the lines of the file are ordered by block height
\* ascending as integers.
C3_SortedByHeight ==
    (pc = "merge" /\ nmerge >= 1) =>
        LET ls == FileLines(file)
        IN  \A k \in 1..(Len(ls) - 1) :
                StrInt(sort_key(ls[k])) <= StrInt(sort_key(ls[k + 1]))

\* C4: the merged file is exactly the set union of the previously persisted
\* lines and the newly found records, and no record appears twice.
C4_MergeIsUnion ==
    (pc = "merge" /\ nmerge >= 1) =>
        LET ls == FileLines(file)
        IN  /\ Range(ls) = Range(FileLines(file0)) \cup Range(results)
            /\ \A k, m \in DOMAIN ls : ls[k] = ls[m] => k = m

C4_Witness ==
    /\ pc = "merge"
    /\ nmerge >= 1
    /\ results = <<FormatLine("abc123", 700000, 4)>>
    /\ FileLines(file0) = <<FormatLine("def456", 699999, 0),
                            FormatLine("abc123", 700000, 4)>>
    /\ FileLines(file) = FileLines(file0)

----------------------------------------------------------------------------
(* The blocks the REST interface returns: an 80-byte header, the varint    *)
(* count of transactions and the serialized transactions.  A transaction   *)
(* is given by its version, its inputs' script lengths, its outputs'       *)
(* (value, script length), its witness stacks' item lengths and locktime.  *)

Fill(n, b) == [k \in 1..n |-> b]
U32(n) == <<n % 256, (n \div 256) % 256, (n \div 65536) % 256, n \div 16777216>>
U64(n) == U32(n) \o <<0, 0, 0, 0>>
VarInt(n) == IF n < 253 THEN <<n>> ELSE <<253, n % 256, n \div 256>>

RECURSIVE Concat(_)
Concat(qs) == IF qs = <<>> THEN <<>> ELSE qs[1] \o Concat(Tail(qs))

SerIn(script_length) ==
    Fill(36, 17) \o VarInt(script_length) \o Fill(script_length, 81)
        \o <<255, 255, 255, 255>>
SerOut(o) == U64(o[1]) \o VarInt(o[2]) \o Fill(o[2], 118)
SerStack(stack) ==
    VarInt(Len(stack)) \o
    Concat([k \in DOMAIN stack |-> VarInt(stack[k]) \o Fill(stack[k], 48)])

Serialize(t) ==
    U32(t.version)
        \o (IF t.segwit THEN <<0, 1>> ELSE <<>>)
        \o VarInt(Len(t.ins)) \o Concat([k \in DOMAIN t.ins |-> SerIn(t.ins[k])])
        \o VarInt(Len(t.outs)) \o Concat([k \in DOMAIN t.outs |-> SerOut(t.outs[k])])
        \o (IF t.segwit THEN Concat([k \in DOMAIN t.wit |-> SerStack(t.wit[k])])
            ELSE <<>>)
        \o U32(t.locktime)

\* the serialization without marker, flag and witness stacks
SerializeLegacy(t) == Serialize([t EXCEPT !.segwit = FALSE])

JmOuts == <<<<100000, 0>>, <<74999, 0>>, <<100000, 0>>, <<75000, 0>>, <<100000, 0>>>>

TxSmall == [version |-> 1, segwit |-> FALSE, ins |-> <<0>>,
            outs |-> <<<<50000, 0>>>>, wit |-> <<>>, locktime |-> 7]
TxJm == [version |-> 2, segwit |-> FALSE, ins |-> <<0, 0, 0>>,
         outs |-> JmOuts, wit |-> <<>>, locktime |-> 500]
TxJmSegwit == [version |-> 2, segwit |-> TRUE, ins |-> <<0, 0, 0>>,
               outs |-> JmOuts, wit |-> <<<<2, 3>>, <<>>, <<1>>>>, locktime |-> 500]
TxSegwit == [version |-> 2, segwit |-> TRUE, ins |-> <<2>>,
             outs |-> <<<<50000, 1>>>>, wit |-> <<<<3>>>>, locktime |-> 9]
TxSegwitB == [version |-> 2, segwit |-> TRUE, ins |-> <<2>>,
              outs |-> <<<<50000, 1>>>>, wit |-> <<<<1, 4>>>>, locktime |-> 9]
TxBig == [version |-> 1, segwit |-> FALSE, ins |-> <<1024>>,
          outs |-> <<<<50000, 2>>>>, wit |-> <<>>, locktime |-> 11]

Templates == {TxSmall, TxJm, TxJmSegwit, TxSegwit, TxSegwitB, TxBig}

MaxBlockTxs == 2
MaxHeights == 2

\* a block: its transactions, how many more it declares than it holds, and
\* how many bytes the response lacks at its end
BlockShapes ==
    {[body |-> b, extra |-> e, cut |-> c] :
        b \in SeqsUpTo(Templates, MaxBlockTxs), e \in {0, 1}, c \in {0, 2}}

BlockBytes(shape) ==
    LET txs == Concat([k \in DOMAIN shape.body |-> Serialize(shape.body[k])])
    IN  Fill(80, 0) \o VarInt(Len(shape.body) + shape.extra)
            \o SubSeq(txs, 1, Len(txs) - Min(shape.cut, Len(txs)))

\* the responses to /block: the blocks above, and one that ends with its header
Blocks == {BlockBytes(shape) : shape \in BlockShapes} \cup {Fill(80, 0)}

\* the blocks of the chain that is scanned over several heights
ChainShapes ==
    { [body |-> <<>>, extra |-> 0, cut |-> 0],
      [body |-> <<TxJm>>, extra |-> 0, cut |-> 0],
      [body |-> <<TxSmall, TxJmSegwit>>, extra |-> 0, cut |-> 0],
      [body |-> <<TxJm, TxSegwit>>, extra |-> 1, cut |-> 0],
      [body |-> <<TxJmSegwit, TxSmall>>, extra |-> 0, cut |-> 2] }
ChainBlocks == {BlockBytes(shape) : shape \in ChainShapes} \cup {Fill(80, 0)}

ChainTips == {100000}
Starts == {0 - k : k \in 1..MaxHeights} \cup {100000}
PruneHeights == {100000}

\* the candidate file an earlier run left
InitialFiles ==
    {<<>>, FormatLine(format_hash(double_sha256(Serialize(TxJm))), 99999, 0)}

----------------------------------------------------------------------------
(* Specification SpecScan: main() *)

InitScan ==
    /\ pc = "get_info"
    /\ arg = <<>>
    /\ ret = Raise
    /\ file \in InitialFiles
    /\ file0 = file
    /\ results = <<>>
    /\ nmerge = 0
    /\ NoScan

\* Btc.get_response failed: sys.exit(ExitStatus.FAILURE.value)
TransportFailure ==
    /\ pc' = "exit_failure"
    /\ UNCHANGED <<fnVars, storeVars, scanVars>>

\* lines 296-309
GetInfo ==
    /\ pc = "get_info"
    /\ \/ TransportFailure
       \/ \E blocks \in ChainTips, pruned \in BOOLEAN, pruneheight \in PruneHeights,
             start \in Starts, end \in {0} :
             LET end_b == IF end # 0 THEN end ELSE blocks
                 start_block == IF start < 0 THEN end_b - (0 - start) + 1 ELSE start
             IN  IF pruned /\ start_block < pruneheight
                 THEN /\ pc' = "exit_argerror"
                      /\ UNCHANGED <<fnVars, storeVars, scanVars>>
                 ELSE /\ pc' = "for_height"
                      /\ height' = start_block
                      /\ end_block' = end_b
                      /\ UNCHANGED <<fnVars, storeVars, blockVars>>

\* lines 310-312
GetBlockhash ==
    /\ pc = "for_height"
    /\ height <= end_block
    /\ \/ TransportFailure
       \/ /\ pc' = "get_block"
          /\ processed_txs' = 0
          /\ UNCHANGED <<fnVars, storeVars, end_block, height, txs_data, n_txs,
                         block_offset, i, j, tx_size, attempt, failed>>

\* lines 314-322 for a response drawn from blocks; decode_varint of an empty
\* txs_data raises out of main
get_block(blocks) ==
    /\ pc = "get_block"
    /\ \/ TransportFailure
       \/ \E block \in blocks :
             LET data == PyFrom(block, 80)
                 count == decode_varint(data)
             IN  /\ txs_data' = data
                 /\ failed' = {}
                 /\ IF count.ok
                    THEN /\ n_txs' = count.value
                         /\ block_offset' = count.size
                         /\ i' = 0
                         /\ pc' = "tx_loop"
                    ELSE /\ pc' = "crashed"
                         /\ UNCHANGED <<n_txs, block_offset, i>>
                 /\ UNCHANGED <<fnVars, storeVars, end_block, height, j, tx_size,
                                processed_txs, attempt>>

GetBlock == get_block(ChainBlocks)

\* lines 325-328
NextTx ==
    /\ pc = "tx_loop"
    /\ i < n_txs
    /\ tx_size' = 0
    /\ j' = 0
    /\ pc' = "try"
    /\ UNCHANGED <<fnVars, storeVars, end_block, height, txs_data, n_txs,
                   block_offset, i, processed_txs, attempt, failed>>

\* lines 329-438 if an attempt that raises left tx_size as it was
TryWidthKeepSize ==
    /\ pc = "try"
    /\ LET r == try_width(txs_data, block_offset, j)
       IN  /\ attempt' = r
           /\ IF r.ok
              THEN /\ tx_size' = r.tx_size
                   /\ results' = IF r.jm[1] > 0
                                 THEN Append(results, FormatLine(r.txid, height, i))
                                 ELSE results
                   /\ processed_txs' = processed_txs + 1
                   /\ pc' = "advance"
                   /\ UNCHANGED <<j, failed>>
              ELSE /\ tx_size' = tx_size
                   /\ IF j + 1 < N_WIDTHS
                      THEN /\ j' = j + 1
                           /\ pc' = "try"
                           /\ failed' = failed
                      ELSE /\ j' = j
                           /\ pc' = "advance"
                           /\ failed' = failed \cup {i}
                   /\ UNCHANGED <<results, processed_txs>>
    /\ UNCHANGED <<fnVars, file, file0, nmerge, end_block, height, txs_data, n_txs,
                   block_offset, i>>

\* lines 329-438: one slice width
TryWidth ==
    /\ pc = "try"
    /\ LET r == try_width(txs_data, block_offset, j)
       IN  /\ attempt' = r
           /\ IF r.ok
              THEN /\ tx_size' = r.tx_size
                   /\ results' = IF r.jm[1] > 0
                                 THEN Append(results, FormatLine(r.txid, height, i))
                                 ELSE results
                   /\ processed_txs' = processed_txs + 1
                   /\ pc' = "advance"
                   /\ UNCHANGED <<j, failed>>
              ELSE /\ tx_size' = IF r.assigned THEN r.tx_size ELSE tx_size
                   /\ IF j + 1 < N_WIDTHS
                      THEN /\ j' = j + 1
                           /\ pc' = "try"
                           /\ failed' = failed
                      ELSE /\ j' = j
                           /\ pc' = "advance"
                           /\ failed' = failed \cup {i}
                   /\ UNCHANGED <<results, processed_txs>>
    /\ UNCHANGED <<fnVars, file, file0, nmerge, end_block, height, txs_data, n_txs,
                   block_offset, i>>

\* lines 440-441 if a transaction that failed were tried again
AdvanceStall ==
    /\ pc = "advance"
    /\ block_offset' = block_offset + tx_size
    /\ i' = IF i \in failed THEN i ELSE i + 1
    /\ pc' = "tx_loop"
    /\ UNCHANGED <<fnVars, storeVars, end_block, height, txs_data, n_txs, j, tx_size,
                   processed_txs, attempt, failed>>

\* lines 440-441
Advance ==
    /\ pc = "advance"
    /\ block_offset' = block_offset + tx_size
    /\ i' = i + 1
    /\ pc' = "tx_loop"
    /\ UNCHANGED <<fnVars, storeVars, end_block, height, txs_data, n_txs, j, tx_size,
                   processed_txs, attempt, failed>>

\* lines 443-447 without the check of processed_txs
EndBlockUnchecked ==
    /\ pc = "tx_loop"
    /\ i >= n_txs
    /\ pc' = "for_height"
    /\ height' = height + 1
    /\ UNCHANGED <<fnVars, storeVars, end_block, blockVars>>

\* lines 443-447 if a failed block wrote what the run has found so far
EndBlockSalvage ==
    /\ pc = "tx_loop"
    /\ i >= n_txs
    /\ IF processed_txs # n_txs
       THEN /\ pc' = "exit_failure"
            /\ file' \in merged_files(file, results)
            /\ UNCHANGED <<height, file0, results, nmerge>>
       ELSE /\ pc' = "for_height"
            /\ height' = height + 1
            /\ UNCHANGED storeVars
    /\ UNCHANGED <<fnVars, end_block, blockVars>>

\* lines 443-447
EndBlock ==
    /\ pc = "tx_loop"
    /\ i >= n_txs
    /\ IF processed_txs # n_txs
       THEN /\ pc' = "exit_failure"
            /\ UNCHANGED height
       ELSE /\ pc' = "for_height"
            /\ height' = height + 1
    /\ UNCHANGED <<fnVars, storeVars, end_block, blockVars>>

\* lines 449-458, at the end of the range
MergeResults ==
    /\ pc = "for_height"
    /\ height > end_block
    /\ file0' = file
    /\ nmerge' = nmerge + 1
    /\ IF \A x \in Range(merge_lines(file, results)) : has_key(x)
       THEN /\ file' \in merged_files(file, results)
            /\ pc' = "done"
       ELSE /\ file' = file
            /\ pc' = "crashed"
    /\ UNCHANGED <<fnVars, results, scanVars>>

NextScan ==
    \/ GetInfo
    \/ GetBlockhash
    \/ GetBlock
    \/ NextTx
    \/ TryWidth
    \/ Advance
    \/ EndBlock
    \/ MergeResults
SpecScan == InitScan /\ [][NextScan]_vars

Exited == pc \in {"exit_failure", "exit_argerror", "crashed"}

\* C5: the candidate file is opened and rewritten only after every height of
\* the range has been fetched and decoded; a run that aborts at any height
\* leaves the file as it found it, whatever it had collected.
C5_NoPartialSuccess ==
    /\ pc # "done" => file = file0
    /\ Exited => (file = file0 /\ (nmerge = 0 \/ pc = "crashed"))
    /\ nmerge > 0 => (height = end_block + 1 /\ pc \in {"done", "crashed"})

C5_Witness ==
    /\ pc = "exit_failure"
    /\ height = end_block
    /\ \E k \in DOMAIN results : sort_key(results[k]) # DecStr(height)
    /\ file # <<>>
    /\ file = file0

\* C6: if any transaction index of a block fails to decode at every slice
\* width, the run ends with exit status FAILURE for that block and never
\* reaches the merge: processed_txs cannot reach n_txs.
C6_FailedTxIsFatal ==
    failed # {} =>
        /\ processed_txs < n_txs
        /\ pc \in {"try", "advance", "tx_loop", "exit_failure"}
        /\ nmerge = 0
        /\ file = file0

C6_Witness ==
    /\ pc = "exit_failure"
    /\ failed # {}
    /\ processed_txs > 0
    /\ processed_txs < n_txs

----------------------------------------------------------------------------
(* Specification SpecBlock: the decode loop of main() over one block, for  *)
(* every block of BlockShapes.                                             *)

InitBlock ==
    /\ pc = "get_block"
    /\ arg = <<>>
    /\ ret = Raise
    /\ NoStore
    /\ end_block = 100000 /\ height = 100000 /\ txs_data = <<>> /\ n_txs = 0
    /\ block_offset = 0 /\ i = 0 /\ j = 0 /\ tx_size = 0 /\ processed_txs = 0
    /\ attempt = NotAssigned /\ failed = {}

GetAnyBlock == get_block(Blocks)

NextBlock ==
    \/ GetAnyBlock
    \/ NextTx
    \/ TryWidth
    \/ Advance
    \/ EndBlock
SpecBlock == InitBlock /\ [][NextBlock]_vars

\* the bytes of the block the transaction decoded last occupies
DecodedRange == PySlice(txs_data, block_offset, block_offset + tx_size)

\* C7: the bytes hashed for the txid are version ++ input count..last output
\* ++ locktime, without marker, flag and witness stacks: transactions that
\* differ only in their witness stacks, and the legacy serialization of a
\* witness transaction, give the same preimage.
C7_TxidPreimage ==
    (pc = "advance" /\ attempt.ok) =>
        \E t \in Templates :
            /\ DecodedRange = Serialize(t)
            /\ attempt.txid_data = SerializeLegacy(t)
            /\ parse_tx(SerializeLegacy(t)).ok
            /\ parse_tx(SerializeLegacy(t)).txid_data = attempt.txid_data
            /\ \A u \in Templates :
                  SerializeLegacy(u) = SerializeLegacy(t) =>
                      /\ parse_tx(Serialize(u)).ok
                      /\ parse_tx(Serialize(u)).txid_data = attempt.txid_data

C7_Witness ==
    /\ pc = "advance"
    /\ attempt.ok
    /\ attempt.is_segwit
    /\ DecodedRange = Serialize(TxSegwitB)
    /\ attempt.txid_data = parse_tx(Serialize(TxSegwit)).txid_data
    /\ attempt.vsize # parse_tx(Serialize(TxSegwit)).vsize

\* the fields of a decoded transaction but its locktime
SameButLocktime(a, b) ==
    /\ a.version = b.version
    /\ a.is_segwit = b.is_segwit
    /\ a.n_in = b.n_in
    /\ a.n_out = b.n_out
    /\ a.values = b.values
    /\ a.tx_size = b.tx_size

\* C10: a transaction that decodes at the cursor with consumed length L
\* decodes again from exactly the L bytes [cursor, cursor + L) to the same
\* version, witness flag, input count, output count, output values,
\* locktime and consumed length.
C10_ReSliceIdempotent ==
    (pc = "advance" /\ attempt.ok) =>
        LET again == parse_tx(DecodedRange)
        IN  /\ again.ok
            /\ SameButLocktime(again, attempt)
            /\ again.locktime = attempt.locktime

\* C11: the locktime decoded for a transaction is the 4 bytes at the end of
\* its own byte range, wherever it stands in the block and however many
\* bytes of later transactions follow it.
C11_LocktimeOfOwnRange ==
    (pc = "advance" /\ attempt.ok) =>
        attempt.locktime = unpack_le(PyLast(DecodedRange, 4))

\* the decode of all that is left of the block at the cursor
RestDecode == parse_tx(PyFrom(txs_data, block_offset))

\* C12 as stated: when every decode-width attempt for a transaction fails,
\* tx_size stays 0 and block_offset is unchanged when the loop moves to the
\* next index, whatever step each attempt failed at.
C12_FailedTxKeepsCursor ==
    [][(pc = "advance" /\ i \in failed) =>
          (tx_size = 0 /\ block_offset' = block_offset)]_vars

\* C12 amended: when every attempt fails before tx_size is computed (line
\* 390), tx_size stays 0 and block_offset is unchanged; when the attempts
\* fail at the length check behind it, tx_size is the computed length and
\* block_offset advances by it.
C12_FailedTxFrame ==
    [][(pc = "advance" /\ i \in failed) =>
          /\ ~RestDecode.ok
          /\ ~RestDecode.assigned => (tx_size = 0 /\ block_offset' = block_offset)
          /\ RestDecode.assigned =>
                /\ tx_size = RestDecode.tx_size
                /\ tx_size > Len(txs_data) - block_offset
                /\ block_offset' = block_offset + tx_size]_vars

C12_Witness ==
    /\ pc = "tx_loop"
    /\ i - 1 \in failed
    /\ tx_size > 0
    /\ block_offset > Len(txs_data)

\* vs with its elements k and k + 1 exchanged; these exchanges generate
\* every permutation of vs
Swap(vs, k) == [m \in DOMAIN vs |-> IF m = k THEN vs[k + 1]
                                    ELSE IF m = k + 1 THEN vs[k] ELSE vs[m]]

Accepted(res) == res.ok /\ res.r # <<0, 0>>

\* one value alone has the highest frequency
UniqueTop(vs) ==
    Cardinality({vs[k] : k \in {m \in DOMAIN vs : Count(vs, vs[m]) = TopFreq(vs)}}) = 1

\* C13 as stated: for two value sequences that are permutations of each
\* other is_jm accepts both or rejects both, and on acceptance returns the
\* same matched-output count, also when two values tie for the top frequency.
C13_OrderIndependent ==
    pc = "ret_is_jm" =>
        \A k \in 1..(Len(arg[3]) - 1) :
            LET other == is_jm(arg[1], arg[2], Swap(arg[3], k))
            IN  /\ Accepted(other) = Accepted(ret)
                /\ Accepted(ret) => other.r[2] = ret.r[2]

\* C13 amended: when one value alone has the highest frequency, is_jm gives
\* the same result for every order of the values; when two values tie, the
\* verdict can change with the order, but the count is the same whenever
\* both orders are accepted.
C13_OrderIndependentUnlessTie ==
    pc = "ret_is_jm" =>
        \A k \in 1..(Len(arg[3]) - 1) :
            LET other == is_jm(arg[1], arg[2], Swap(arg[3], k))
            IN  /\ UniqueTop(arg[3]) => other = ret
                /\ (Accepted(other) /\ Accepted(ret)) => other.r[2] = ret.r[2]

C13_Witness ==
    /\ pc = "ret_is_jm"
    /\ arg = <<4, 5, <<75000, 100000, 100000, 74999, 100000>>>>
    /\ UniqueTop(arg[3])
    /\ ret.r = <<100000, 3>>
    /\ is_jm(4, 5, Swap(arg[3], 1)) = ret

----------------------------------------------------------------------------
(* Specification SpecBlockFair: SpecBlock for a process that keeps running. *)
(* main() is one sequential thread, so the statement it stands at is        *)
(* executed: every step is weakly fair.  TryWidth assigns every variable on *)
(* each branch and always moves pc or j, so ENABLED <<TryWidth>>_vars is    *)
(* its guard pc = "try"; its weak fairness is written with that guard.      *)

FairTryWidth == []<>(pc # "try") \/ []<><<TryWidth>>_vars

SpecBlockFair ==
    /\ InitBlock /\ [][NextBlock]_vars
    /\ WF_vars(GetAnyBlock) /\ WF_vars(NextTx) /\ WF_vars(Advance) /\ WF_vars(EndBlock)
    /\ FairTryWidth

\* C14: the per-block decode loop always terminates: after at most n_txs
\* iterations of at most 20 slice-width attempts each the block is done
\* (processed_txs = n_txs) or the run has exited with FAILURE; it never
\* stalls on one transaction.
C14_DecodeLoopTerminates ==
    /\ [](j < N_WIDTHS /\ i <= n_txs)
    /\ [](pc = "for_height" => processed_txs = n_txs)
    /\ (pc = "tx_loop") ~> (pc \in {"for_height", "exit_failure"})

C14_Witness ==
    /\ pc = "exit_failure"
    /\ i = n_txs
    /\ Cardinality(failed) = 2
    /\ j = N_WIDTHS - 1

====
